---- MODULE Spec2Model ----
(***************************************************************************)
(* Model of the f5networks collection's profile modules                    *)
(* (bigip_profile_http, bigip_profile_tcp: ModuleManager.exec_module and   *)
(* the Parameters / Difference classes it drives) and of the bigiq action  *)
(* plugin (ActionModule.run).                                              *)
(*                                                                         *)
(* One run of a module is a sequence of blocking REST calls.  Every REST   *)
(* call is one action: the request, the device's answer (chosen with \E    *)
(* among the answers the device can give) and all the code that runs up to *)
(* the next request or to the end of the run.  The device outlives a run;  *)
(* a second run with the same arguments starts from the device as the      *)
(* first run left it.                                                      *)
(*                                                                         *)
(* Python's None is the string "None"; every field value is a string; a    *)
(* Python int is the text of its decimal form, and is compared as a number *)
(* through its digits.                                                     *)
(***************************************************************************)
EXTENDS Integers, Sequences, FiniteSets, TLC

VARIABLES
    module,     \* "http" or "tcp": which module runs
    params,     \* module.params, the task's arguments
    device,     \* the profile as the device holds it
    pc,         \* position of the current run
    have,       \* ModuleManager.have
    changes,    \* ModuleManager.changes (the params of UsableChanges)
    changed,    \* the value exec_module returns under 'changed'
    failed,     \* the failure text, "None" while the run has not failed
    log,        \* the REST requests of the current run, in order
    runs,       \* the finished runs: [changed, clean, requests]
    a_pc,       \* bigiq action: position in ActionModule.run
    connection, \* bigiq action: _play_context.connection
    provider,   \* bigiq action: the task's provider argument
    transport,  \* bigiq action: local variable transport
    socket_path,\* bigiq action: local variable socket_path
    shell,      \* bigiq action: the CLI session (config depth, whether it opens)
    out,        \* bigiq action: the last prompt read
    trace,      \* bigiq action: what the action did, in order
    f_pc,       \* a property of ModuleParameters / ReportableChanges: "call", "return"
    f_arg,      \* the property read and the value the user gave: [fn, v]
    f_val       \* what the property returned or raised: [err, v]

mvars == <<module, params, device, pc, have, changes, changed, failed, log, runs>>
avars == <<a_pc, connection, provider, transport, socket_path, shell, out, trace>>
fvars == <<f_pc, f_arg, f_val>>
vars == <<module, params, device, pc, have, changes, changed, failed, log, runs,
          a_pc, connection, provider, transport, socket_path, shell, out, trace,
          f_pc, f_arg, f_val>>

None == "None"

(* Bounds of the model. *)
MaxRuns == 2
MaxDepth == 2

(***************************************************************************)
(* module_utils helpers (not part of the sources at hand).                 *)
(***************************************************************************)

\* fq_name(partition, value): a name that already starts with '/' is kept,
\* any other is prefixed with /<partition>/.
QualifiedNames == {"/Common/r1", "/Common/r2", "/Common/http", "/Common/tcp", "/Common/custom"}

fq_name(partition, value) ==
    IF value \in QualifiedNames THEN value ELSE "/" \o partition \o "/" \o value

(***************************************************************************)
(* Arguments.                                                              *)
(***************************************************************************)
Name == "profile1"
Partition == "Common"

\* The keys of a changes dictionary (a key whose value is None is absent).
ChangeKeys == {"parent", "description", "encrypt_cookie_secret", "proxy_type",
               "explicit_proxy", "dns_resolver", "nagle",
               "maximum_age", "max_header_count", "max_header_size", "max_requests",
               "poll_interval", "sampling_rate", "initial_congestion_window_size",
               "initial_receive_window_size", "syn_rto_base"}

NoChanges == [k \in ChangeKeys |-> None]

\* The wire attributes of a request body or of a stored profile
\* (explicitProxy stands for explicitProxy.dnsResolver).
ApiKeys == {"defaultsFrom", "description", "encryptCookieSecret", "proxyType",
            "explicitProxy", "nagle",
            "maximumAge", "maxHeaderCount", "maxHeaderSize", "maxRequests",
            "pollInterval", "samplingRate", "initCwnd", "initRwnd", "synRtoBase"}

\* Parameters.api_map and the hsts / enforcement / sflow dictionaries: the wire
\* attribute of an argument with a range
RangeAttr(key) ==
    CASE key = "maximum_age" -> "maximumAge"
      [] key = "max_header_count" -> "maxHeaderCount"
      [] key = "max_header_size" -> "maxHeaderSize"
      [] key = "max_requests" -> "maxRequests"
      [] key = "poll_interval" -> "pollInterval"
      [] key = "sampling_rate" -> "samplingRate"
      [] key = "initial_congestion_window_size" -> "initCwnd"
      [] key = "initial_receive_window_size" -> "initRwnd"
      [] key = "syn_rto_base" -> "synRtoBase"

RangeAttrs == {"maximumAge", "maxHeaderCount", "maxHeaderSize", "maxRequests",
               "pollInterval", "samplingRate", "initCwnd", "initRwnd", "synRtoBase"}

NoBody == [k \in ApiKeys |-> None] @@ [name |-> None, partition |-> None]

(* F5ModuleError texts raised by the modules. *)
MsgProxyNoResolver == "A proxy type cannot be set to explicit without providing DNS resolver."
MsgResolverEmpty == "DNS resolver cannot be empty or 'none' if an existing profile proxy type is set to explicit."
MsgDeleteFailed == "Failed to delete the resource."
MsgMalformed == "ValueError"
MsgDeleteStatus == "response.content"

MsgInvalidCode == "Invalid HTTP error code or error code range specified."
MsgMaximumAge == "Valid 'maximum_age' must be in range 0 - 4294967295, or 'indefinite'."
MsgMaxHeaderCount == "Valid 'max_header_count' must be in range 16 - 4096, or 'default'."
MsgMaxHeaderSize == "Valid 'max_header_size' must be in range 0 - 4294967295, or 'default'."
MsgMaxRequests == "Valid 'max_requests' must be in range 0 - 4294967295, or 'default'."
MsgPollInterval == "Valid 'poll_interval' must be in range 0 - 4294967295 seconds."
MsgSamplingRate == "Valid 'sampling_rate' must be in range 0 - 4294967295 packets."
MsgIdleTimeout == "Valid 'idle_timeout' must be in range 1 - 4294967295, or 'indefinite'."
MsgInitCwnd == "Valid 'initial_congestion_window_size' must be in range 0 - 16 MSS units."
MsgInitRwnd == "Valid 'initial_receive_window_size' must be in range 0 - 16 MSS units."
MsgSynRtoBase == "Valid 'syn_rto_base' must be in range 0 - 5000 milliseconds."
MsgNotInt == "ValueError: invalid literal for int()"

(* Exceptions that are not F5ModuleError: main() does not catch them. *)
Crashes == {"IndexError", "TypeError", MsgNotInt}

(* What reading a property gives: a value, or an exception. *)
Returned(v) == [err |-> None, v |-> v, shown |-> None]

Raised(msg) == [err |-> msg, v |-> None, shown |-> None]

(***************************************************************************)
(* Numbers.  The modules compare against 4294967295, so a number is kept   *)
(* as its sign and its decimal digits, most significant first, without     *)
(* leading zeros.                                                          *)
(***************************************************************************)

\* the characters \d matches
DigitChars == <<"0", "1", "2", "3", "4", "5", "6", "7", "8", "9">>

IsDigit(c) == \E i \in 1..10 : DigitChars[i] = c

DigitOf(c) == (CHOOSE i \in 1..10 : DigitChars[i] = c) - 1

\* the numerals a user writes, and the characters each is made of
Numerals == {"-1", "0", "1", "15", "16", "17", "63", "64", "65", "0064", "4095", "4096",
             "4097", "5000", "5001", "32767", "32768", "32769",
             "4294967294", "4294967295", "4294967296"}

\* what the user writes for an argument that takes a keyword
KeywordTexts == Numerals \cup {"default", "indefinite"}

Spell(t) ==
    CASE t = "-1" -> <<"-", "1">>
      [] t = "0" -> <<"0">>
      [] t = "1" -> <<"1">>
      [] t = "15" -> <<"1", "5">>
      [] t = "16" -> <<"1", "6">>
      [] t = "17" -> <<"1", "7">>
      [] t = "63" -> <<"6", "3">>
      [] t = "64" -> <<"6", "4">>
      [] t = "65" -> <<"6", "5">>
      [] t = "0064" -> <<"0", "0", "6", "4">>
      [] t = "4095" -> <<"4", "0", "9", "5">>
      [] t = "4096" -> <<"4", "0", "9", "6">>
      [] t = "4097" -> <<"4", "0", "9", "7">>
      [] t = "5000" -> <<"5", "0", "0", "0">>
      [] t = "5001" -> <<"5", "0", "0", "1">>
      [] t = "32767" -> <<"3", "2", "7", "6", "7">>
      [] t = "32768" -> <<"3", "2", "7", "6", "8">>
      [] t = "32769" -> <<"3", "2", "7", "6", "9">>
      [] t = "4294967294" -> <<"4", "2", "9", "4", "9", "6", "7", "2", "9", "4">>
      [] t = "4294967295" -> <<"4", "2", "9", "4", "9", "6", "7", "2", "9", "5">>
      [] t = "4294967296" -> <<"4", "2", "9", "4", "9", "6", "7", "2", "9", "6">>

RECURSIVE Strip(_)
Strip(ds) == IF Len(ds) > 1 /\ ds[1] = 0 THEN Strip(Tail(ds)) ELSE ds

\* the number a numeral denotes: [neg, mag]
Number(chars) ==
    LET neg == chars[1] = "-"
        body == IF neg THEN Tail(chars) ELSE chars
        mag == Strip([i \in 1..Len(body) |-> DigitOf(body[i])])
    IN  [neg |-> neg /\ mag # <<0>>, mag |-> mag]

\* the decimal form of a number
Decimal(n) ==
    (IF n.neg THEN <<"-">> ELSE <<>>) \o [i \in 1..Len(n.mag) |-> DigitChars[n.mag[i] + 1]]

\* the text that is spelled with these characters
TextOf(chars) == CHOOSE c \in Numerals : Spell(c) = chars

\* int(t): the Python int a numeral converts to (anything else is a ValueError)
int(t) == TextOf(Decimal(Number(Spell(t))))

\* str(n): a Python int written out
str(n) == TextOf(Decimal(Number(Spell(n))))

\* a <= b on magnitudes
MagLe(a, b) ==
    \/ Len(a) < Len(b)
    \/ /\ Len(a) = Len(b)
       /\ \/ a = b
          \/ \E i \in 1..Len(a) : a[i] < b[i] /\ \A j \in 1..(i - 1) : a[j] = b[j]

\* x <= y on numbers
NumLe(x, y) ==
    CASE x.neg /\ ~y.neg -> TRUE
      [] ~x.neg /\ y.neg -> FALSE
      [] x.neg /\ y.neg -> MagLe(y.mag, x.mag)
      [] OTHER -> MagLe(x.mag, y.mag)

\* a <= b on Python ints
Le(a, b) == NumLe(Number(Spell(a)), Number(Spell(b)))

\* x <= y <= z on numbers
Between(x, y, z) == NumLe(x, y) /\ NumLe(y, z)

\* lo <= n <= hi (a chained comparison)
InRange(lo, n, hi) == Between(Number(Spell(lo)), Number(Spell(n)), Number(Spell(hi)))

(***************************************************************************)
(* ModuleParameters: the desired state (want).                             *)
(***************************************************************************)

\* ModuleParameters.parent
WantParent(m, p) ==
    IF p.parent = None THEN None ELSE fq_name(Partition, p.parent)

\* ModuleParameters.dns_resolver (http)
WantDnsResolver(p) ==
    IF p.dns_resolver = None THEN None
    ELSE IF p.dns_resolver = "" \/ p.dns_resolver = "none" THEN ""
    ELSE fq_name(Partition, p.dns_resolver)

\* proxy_type that raises only for a resolver that was not specified
AsProxyTypeUnspecifiedOnly(p) == p.proxy_type = "explicit" /\ p.dns_resolver = None

\* ModuleParameters.proxy_type raises when explicit comes without a resolver
ProxyTypeRaises(p) ==
    /\ p.proxy_type = "explicit"
    /\ WantDnsResolver(p) \in {None, ""}

\* ModuleParameters.dns_resolver_address indexes resolver.split('/')[1]:
\* IndexError for the empty resolver
ResolverAddressCrashes(p) == WantDnsResolver(p) = ""

\* ModuleParameters.explicit_proxy: dict(dnsResolver=..., dnsResolverReference=...)
WantExplicitProxy(p) == WantDnsResolver(p)

InSeq(x, s) == \E i \in 1..Len(s) : s[i] = x

Elems(s) == {s[i] : i \in 1..Len(s)}

\* defaults of known_methods: the methods the system knows
Defaults == <<"CONNECT", "DELETE", "GET", "HEAD", "LOCK", "OPTIONS", "POST", "PROPFIND",
              "PUT", "TRACE", "UNLOCK">>

\* method != 'default'
NotDefaultKeyword(method) == method # "default"

\* item not in defaults
NotInDefaults(item) == ~InSeq(item, Defaults)

\* "if lo <= n <= hi: return n", else "raise F5ModuleError(msg)"
Checked(lo, n, hi, msg) == IF InRange(lo, n, hi) THEN Returned(n) ELSE Raised(msg)

\* ModuleParameters.maximum_age (http)
WantMaximumAge(v) ==
    IF v = None THEN Returned(None)
    ELSE IF v = "indefinite" THEN Returned("4294967295")
    ELSE IF v \notin Numerals THEN Raised(MsgNotInt)
    ELSE Checked("0", int(v), "4294967295", MsgMaximumAge)

\* max_header_count that takes the lower end of the other enforcement ranges
AsMaxHeaderCountFromZero(v) ==
    IF v = None THEN Returned(None)
    ELSE IF v = "default" THEN Returned("64")
    ELSE IF v \notin Numerals THEN Raised(MsgNotInt)
    ELSE Checked("0", int(v), "4096", MsgMaxHeaderCount)

\* ModuleParameters.max_header_count (http, enforcement)
WantMaxHeaderCount(v) ==
    IF v = None THEN Returned(None)
    ELSE IF v = "default" THEN Returned("64")
    ELSE IF v \notin Numerals THEN Raised(MsgNotInt)
    ELSE Checked("16", int(v), "4096", MsgMaxHeaderCount)

\* ModuleParameters.max_header_size (http, enforcement)
WantMaxHeaderSize(v) ==
    IF v = None THEN Returned(None)
    ELSE IF v = "default" THEN Returned("32768")
    ELSE IF v \notin Numerals THEN Raised(MsgNotInt)
    ELSE Checked("0", int(v), "4294967295", MsgMaxHeaderSize)

\* ModuleParameters.max_requests (http, enforcement)
WantMaxRequests(v) ==
    IF v = None THEN Returned(None)
    ELSE IF v = "default" THEN Returned("0")
    ELSE IF v \notin Numerals THEN Raised(MsgNotInt)
    ELSE Checked("0", int(v), "4294967295", MsgMaxRequests)

\* ModuleParameters.poll_interval (http, sflow; the argument is an int)
WantPollInterval(v) ==
    IF v = None THEN Returned(None)
    ELSE Checked("0", v, "4294967295", MsgPollInterval)

\* ModuleParameters.sampling_rate (http, sflow; the argument is an int)
WantSamplingRate(v) ==
    IF v = None THEN Returned(None)
    ELSE Checked("0", v, "4294967295", MsgSamplingRate)

\* ModuleParameters.idle_timeout (tcp)
WantIdleTimeout(v) ==
    IF v = None THEN Returned(None)
    ELSE IF v = "indefinite" THEN Returned("4294967295")
    ELSE IF v \notin Numerals THEN Raised(MsgNotInt)
    ELSE Returned(int(v))

\* ModuleParameters.initial_congestion_window_size (tcp; the argument is an int)
WantInitialCongestionWindowSize(v) ==
    IF v = None THEN Returned(None)
    ELSE Checked("0", v, "16", MsgInitCwnd)

\* ModuleParameters.initial_receive_window_size (tcp; the argument is an int)
WantInitialReceiveWindowSize(v) ==
    IF v = None THEN Returned(None)
    ELSE Checked("0", v, "16", MsgInitRwnd)

\* syn_rto_base that returns whatever it is given
AsSynRtoBaseUnchecked(v) == Returned(v)

\* ModuleParameters.syn_rto_base (tcp; the argument is an int)
WantSynRtoBase(v) ==
    IF v = None THEN Returned(None)
    ELSE Checked("0", v, "5000", MsgSynRtoBase)

\* ModuleParameters.known_methods with the system methods put first
AsKnownMethodsDefaultsFirst(known) ==
    IF InSeq("default", known)
    THEN Defaults \o SelectSeq(known, NotDefaultKeyword)
    ELSE known

\* ModuleParameters.known_methods (http, enforcement), for a list
WantKnownMethods(known) ==
    IF Len(known) = 1 /\ known[1] = "default" THEN Defaults
    ELSE IF Len(known) = 1 /\ known[1] = "" THEN <<>>
    ELSE IF InSeq("default", known)
    THEN SelectSeq(known, NotDefaultKeyword) \o Defaults
    ELSE known

\* the arguments with a range, in the order of Parameters.returnables
RangeKeys(m) ==
    IF m = "http"
    THEN <<"maximum_age", "max_header_count", "max_header_size", "max_requests",
           "poll_interval", "sampling_rate">>
    ELSE <<"initial_congestion_window_size", "initial_receive_window_size", "syn_rto_base">>

AllRangeKeys == {"maximum_age", "max_header_count", "max_header_size", "max_requests",
                 "poll_interval", "sampling_rate", "initial_congestion_window_size",
                 "initial_receive_window_size", "syn_rto_base"}

\* the argument behind a wire attribute
RangeKeyOf(attr) == CHOOSE k \in AllRangeKeys : RangeAttr(k) = attr

\* getattr(self.want, key) for an argument with a range
WantRanged(key, v) ==
    CASE key = "maximum_age" -> WantMaximumAge(v)
      [] key = "max_header_count" -> WantMaxHeaderCount(v)
      [] key = "max_header_size" -> WantMaxHeaderSize(v)
      [] key = "max_requests" -> WantMaxRequests(v)
      [] key = "poll_interval" -> WantPollInterval(v)
      [] key = "sampling_rate" -> WantSamplingRate(v)
      [] key = "idle_timeout" -> WantIdleTimeout(v)
      [] key = "initial_congestion_window_size" -> WantInitialCongestionWindowSize(v)
      [] key = "initial_receive_window_size" -> WantInitialReceiveWindowSize(v)
      [] key = "syn_rto_base" -> WantSynRtoBase(v)

\* getattr(self.want, key) for the keys of the model
Want(m, p, key) ==
    CASE key = "parent" -> WantParent(m, p)
      [] key = "dns_resolver" -> WantDnsResolver(p)
      [] key = "explicit_proxy" -> WantExplicitProxy(p)
      [] key \in AllRangeKeys -> WantRanged(key, p[key]).v
      [] OTHER -> p[key]

(***************************************************************************)
(* Parameters.returnables / updatables, restricted to the modelled keys,   *)
(* in the order of the source lists.                                       *)
(***************************************************************************)
Returnables(m) ==
    IF m = "http"
    THEN <<"parent", "description", "proxy_type", "explicit_proxy", "dns_resolver",
           "maximum_age", "max_header_count", "max_header_size", "max_requests",
           "poll_interval", "sampling_rate">>
    ELSE <<"parent", "nagle", "initial_congestion_window_size",
           "initial_receive_window_size", "syn_rto_base">>

Updatables(m) ==
    IF m = "http"
    THEN <<"description", "encrypt_cookie_secret", "proxy_type", "dns_resolver",
           "maximum_age", "max_header_count", "max_header_size", "max_requests",
           "poll_interval", "sampling_rate">>
    ELSE <<"parent", "nagle", "initial_congestion_window_size",
           "initial_receive_window_size", "syn_rto_base">>

(***************************************************************************)
(* ModuleManager._set_changed_options: the create path.                    *)
(***************************************************************************)

IsError(err) == err # None

\* the exception of the first of these keys whose property raises, or else
\* what comes after them
FirstError(p, keys, after) ==
    Head(SelectSeq([i \in 1..Len(keys) |-> WantRanged(keys[i], p[keys[i]]).err], IsError)
         \o <<after>>)

\* the first exception raised while the returnables are read from want
SetChangedError(m, p) ==
    IF m = "http" /\ ProxyTypeRaises(p) THEN MsgProxyNoResolver
    ELSE IF m = "http" /\ ResolverAddressCrashes(p) THEN "IndexError"
    ELSE FirstError(p, RangeKeys(m), None)

\* changed[key] = getattr(self.want, key) for every returnable that is not None
SetChangedOptions(m, p) ==
    [k \in ChangeKeys |->
        IF InSeq(k, Returnables(m)) THEN Want(m, p, k) ELSE None]

(***************************************************************************)
(* ApiParameters: the current state (have), built from a GET response.     *)
(* valid is FALSE when the response was an error body: it then holds none  *)
(* of the profile's attributes (no 'enforcement', no 'sflow').             *)
(***************************************************************************)
NoHave == [k \in ChangeKeys |-> None] @@ [valid |-> FALSE]

ApiParameters(d) ==
    [parent |-> d.defaultsFrom,
     description |-> d.description,
     encrypt_cookie_secret |-> d.encryptCookieSecret,
     proxy_type |-> d.proxyType,
     explicit_proxy |-> d.explicitProxy,
     dns_resolver |-> d.explicitProxy,
     nagle |-> d.nagle,
     valid |-> TRUE] @@ [k \in AllRangeKeys |-> d[RangeAttr(k)]]

(***************************************************************************)
(* Difference.                                                             *)
(***************************************************************************)

\* a comparison that reports the desired value whether or not it differs
AsDiffAlways(w, h) == w

\* Difference.__default
DiffDefault(w, h) == IF w # h THEN w ELSE None

\* a comparison of the secret that does not look at update_password
AsDiffSecretAnyPolicy(p, h) ==
    IF p.encrypt_cookie_secret # h.encrypt_cookie_secret THEN p.encrypt_cookie_secret ELSE None

\* Difference.encrypt_cookie_secret
DiffEncryptCookieSecret(p, h) ==
    IF p.encrypt_cookie_secret # h.encrypt_cookie_secret /\ p.update_password = "always"
    THEN p.encrypt_cookie_secret
    ELSE None

\* Difference.dns_resolver raises F5ModuleError in one branch
DiffDnsResolverRaises(p, h) ==
    /\ WantDnsResolver(p) = ""
    /\ ~(h.dns_resolver = None \/ h.dns_resolver = "none")
    /\ h.proxy_type = "explicit"
    /\ p.proxy_type = None

\* Difference.dns_resolver
DiffDnsResolver(p, h) ==
    LET w == WantDnsResolver(p) IN
    IF w = None THEN None
    ELSE IF w = "" /\ (h.dns_resolver = None \/ h.dns_resolver = "none") THEN None
    ELSE IF w = "" /\ h.dns_resolver # None THEN w
    ELSE IF h.dns_resolver = None THEN w
    ELSE None

\* Difference.compare
Compare(m, p, h, key) ==
    CASE m = "http" /\ key = "encrypt_cookie_secret" -> DiffEncryptCookieSecret(p, h)
      [] m = "http" /\ key = "dns_resolver" -> DiffDnsResolver(p, h)
      [] OTHER -> DiffDefault(Want(m, p, key), h[key])

\* the first exception raised while the updatables are compared: the http
\* module reads have.truncated_redirects etc. (self._values['enforcement'][...]),
\* a TypeError when have was built from an error body; maximum_age is compared
\* before them, the enforcement and sflow arguments after them
UpdateChangedError(m, p, h) ==
    IF m = "http" /\ ProxyTypeRaises(p) THEN MsgProxyNoResolver
    ELSE IF m = "http" /\ DiffDnsResolverRaises(p, h) THEN MsgResolverEmpty
    ELSE FirstError(p, IF m = "http" /\ ~h.valid THEN <<"maximum_age">> ELSE RangeKeys(m),
                       IF m = "http" /\ ~h.valid THEN "TypeError" ELSE None)

\* ModuleManager._update_changed_options: the changed dictionary
UpdateChangedOptions(m, p, h) ==
    [k \in ChangeKeys |->
        IF InSeq(k, Updatables(m)) THEN Compare(m, p, h, k) ELSE None]

\* "if changed:" (a dictionary is true when it has a key)
NonEmpty(c) == \E k \in ChangeKeys : c[k] # None

(***************************************************************************)
(* UsableChanges.api_params(): the request body built from the changes.    *)
(***************************************************************************)
api_params(c) ==
    [defaultsFrom |-> c.parent,
     description |-> c.description,
     encryptCookieSecret |-> c.encrypt_cookie_secret,
     proxyType |-> c.proxy_type,
     explicitProxy |-> c.dns_resolver,
     nagle |-> c.nagle,
     name |-> None,
     partition |-> None] @@ [a \in RangeAttrs |-> c[RangeKeyOf(a)]]

(***************************************************************************)
(* UsableChanges and ReportableChanges: what a run reports of a change.    *)
(***************************************************************************)

\* UsableChanges.idle_timeout (tcp)
UsableIdleTimeout(w) ==
    IF w = None THEN Returned(None)
    ELSE IF InRange("0", w, "4294967295") THEN Returned(w)
    ELSE Raised(MsgIdleTimeout)

\* ReportableChanges.idle_timeout (tcp); Changes.to_return drops the changes
\* when UsableChanges.idle_timeout raises
ReportIdleTimeout(w) ==
    IF w = None \/ UsableIdleTimeout(w).err # None THEN None
    ELSE IF w = "4294967295" THEN "indefinite"
    ELSE int(w)

\* ReportableChanges.maximum_age
ReportMaximumAge(w) ==
    IF w = None THEN None
    ELSE IF w = "4294967295" THEN "indefinite"
    ELSE int(w)

\* ReportableChanges.max_header_count
ReportMaxHeaderCount(w) ==
    IF w = None THEN None
    ELSE IF w = "64" THEN "default"
    ELSE str(w)

\* ReportableChanges.max_header_size
ReportMaxHeaderSize(w) ==
    IF w = None THEN None
    ELSE IF w = "32768" THEN "default"
    ELSE str(w)

\* max_requests reported as the number, whatever it is
AsReportMaxRequestsPlain(w) == IF w = None THEN None ELSE str(w)

\* ReportableChanges.max_requests
ReportMaxRequests(w) ==
    IF w = None THEN None
    ELSE IF w = "0" THEN "default"
    ELSE str(w)

\* ReportableChanges.known_methods, for a list
ReportKnownMethods(known) ==
    IF known = <<>> THEN <<"">>
    ELSE IF Elems(known) = Elems(Defaults) THEN <<"default">>
    ELSE IF Elems(Defaults) \subseteq Elems(known)
    THEN SelectSeq(known, NotInDefaults) \o <<"default">>
    ELSE known

\* the value ReportableChanges gives for a key of the changes
Reported(key, w) ==
    CASE key = "idle_timeout" -> ReportIdleTimeout(w)
      [] key = "maximum_age" -> ReportMaximumAge(w)
      [] key = "max_header_count" -> ReportMaxHeaderCount(w)
      [] key = "max_header_size" -> ReportMaxHeaderSize(w)
      [] key = "max_requests" -> ReportMaxRequests(w)
      [] key = "known_methods" -> ReportKnownMethods(w)
      [] OTHER -> w

\* ReportableChanges.returnables, restricted to the modelled keys (enforcement
\* and sflow stand for the arguments they hold); tcp has Parameters.returnables
ReportableReturnables(m) ==
    IF m = "http"
    THEN <<"parent", "description", "proxy_type", "explicit_proxy", "dns_resolver",
           "maximum_age", "max_header_count", "max_header_size", "max_requests",
           "poll_interval", "sampling_rate">>
    ELSE <<"parent", "nagle", "initial_congestion_window_size",
           "initial_receive_window_size", "syn_rto_base">>

\* to_return that fills in the parent of the http profile
AsToReturnWithParent(m, c) ==
    [k \in ChangeKeys |-> IF k = "parent" THEN "/Common/http" ELSE c[k]]

\* UsableChanges(params=c).to_return(): the returnables that are not None;
\* explicit_proxy is built from dns_resolver
UsableToReturn(m, c) ==
    [k \in ChangeKeys |->
        IF ~InSeq(k, Returnables(m)) THEN None
        ELSE IF m = "http" /\ k = "explicit_proxy" THEN c.dns_resolver
        ELSE c[k]]

\* ReportableChanges(params=u).to_return()
ReportableToReturn(m, u) ==
    [k \in ChangeKeys |->
        IF InSeq(k, ReportableReturnables(m)) THEN Reported(k, u[k]) ELSE None]

\* exec_module: result.update(**changes); result.update(dict(changed=changed))
Result(m, c, ch) == ReportableToReturn(m, UsableToReturn(m, c)) @@ [changed |-> ch]

(***************************************************************************)
(* The device and its answers.                                             *)
(*   "ok"        status 200, a JSON body without 'code'                    *)
(*   "e400" ...  a JSON body with 'code' and 'message', status = code      *)
(*   "malformed" a body that is not JSON                                   *)
(***************************************************************************)
Absent == [k \in ApiKeys |-> None] @@ [exists |-> FALSE]

ErrorKinds == {"e400", "e403", "e404"}

Message(resp) ==
    CASE resp = "e400" -> "message 400"
      [] resp = "e403" -> "message 403"
      [] resp = "e404" -> "message 404"
      [] OTHER -> None

\* what a GET of the profile can answer: 404 only for a profile that is not there
GetAnswers(d) ==
    IF d.exists THEN {"ok", "e400", "e403", "malformed"}
    ELSE {"e404", "e400", "e403", "malformed"}

PostAnswers(d) == (IF d.exists THEN {} ELSE {"ok"}) \cup ErrorKinds \cup {"malformed"}

PatchAnswers(d) == (IF d.exists THEN {"ok"} ELSE {}) \cup ErrorKinds \cup {"malformed"}

DeleteAnswers(d) == (IF d.exists THEN {"ok"} ELSE {}) \cup ErrorKinds

\* what the device keeps of an attribute it is sent: the value, except that an
\* empty explicitProxy.dnsResolver removes the resolver (the modules expect a
\* profile without resolver to come back without the key, or with 'none')
Kept(k, v) == IF k = "explicitProxy" /\ v = "" THEN None ELSE v

\* the device stores what a POST sends; attributes not sent keep the defaults
\* the device gives them (None here)
Stored(body) == [k \in ApiKeys |-> Kept(k, body[k])] @@ [exists |-> TRUE]

\* the device overwrites the attributes a PATCH sends
Patched(d, body) ==
    [k \in ApiKeys |-> IF body[k] # None THEN Kept(k, body[k]) ELSE d[k]] @@ [exists |-> TRUE]

Entry(req, resp, body) == [req |-> req, resp |-> resp, body |-> body]

(***************************************************************************)
(* ModuleManager: the outcome of the code between two requests, as         *)
(* [pc, changes, changed, failed].                                         *)
(***************************************************************************)
Goto(l, c) == [pc |-> l, changes |-> c, changed |-> FALSE, failed |-> None]

\* exec_module returns: module.exit_json(changed=...)
Done(c, ch) == [pc |-> "done", changes |-> c, changed |-> ch, failed |-> None]

\* an exception leaves exec_module: module.fail_json(msg=...), or a traceback
Fail(c, msg) == [pc |-> "failed", changes |-> c, changed |-> FALSE, failed |-> msg]

\* ModuleManager.exists: the answer to the GET as a truth value
exists(resp) == ~(resp = "malformed" \/ resp = "e404")

\* create(), once _set_changed_options has raised err or set the changes c
Created(check_mode, err, c) ==
    IF err # None THEN Fail(NoChanges, err)
    ELSE IF check_mode THEN Done(c, TRUE)
    ELSE Goto("create_on_device", c)

\* create() of tcp: a missing parent defaults to /<partition>/tcp
WithParent(m, p) ==
    IF m = "tcp" /\ p.parent = None
    THEN [p EXCEPT !.parent = fq_name(Partition, "tcp")] ELSE p

\* create() with the check-mode test inverted
AsCreateInverted(m, p) ==
    Created(~p.check_mode, SetChangedError(m, p), SetChangedOptions(m, p))

\* ModuleManager.create
create(m, p) ==
    Created(p.check_mode, SetChangedError(m, WithParent(m, p)),
            SetChangedOptions(m, WithParent(m, p)))

\* ModuleManager.remove, up to the DELETE
remove(p) ==
    IF p.check_mode THEN Done(NoChanges, TRUE) ELSE Goto("remove_from_device", NoChanges)

\* ModuleManager.present
present(m, p, ex) ==
    IF ex THEN Goto("read_current_from_device", NoChanges) ELSE create(m, p)

\* ModuleManager.absent
absent(p, ex) ==
    IF ex THEN remove(p) ELSE Done(NoChanges, FALSE)

\* ModuleManager.exec_module, after the first exists()
exec_module(m, p, ex) ==
    IF p.state = "present" THEN present(m, p, ex) ELSE absent(p, ex)

\* update(), once should_update has raised err or found the changes c
Updated(check_mode, err, c) ==
    IF err # None THEN Fail(NoChanges, err)
    ELSE IF ~NonEmpty(c) THEN Done(NoChanges, FALSE)
    ELSE IF check_mode THEN Done(c, TRUE)
    ELSE Goto("update_on_device", c)

\* update() without the check-mode test
AsUpdateIgnoresCheckMode(m, p, h) ==
    Updated(FALSE, UpdateChangedError(m, p, h), UpdateChangedOptions(m, p, h))

\* ModuleManager.update, after read_current_from_device returned have
update(m, p, h) ==
    Updated(p.check_mode, UpdateChangedError(m, p, h), UpdateChangedOptions(m, p, h))

\* ModuleManager.read_current_from_device: the answers that raise
ReadRaises(resp) == resp = "malformed" \/ resp = "e400"

\* ModuleManager.read_current_from_device, then the rest of update()
read_current_from_device(m, p, d, resp) ==
    IF resp = "malformed" THEN Fail(NoChanges, MsgMalformed)
    ELSE IF ReadRaises(resp) THEN Fail(NoChanges, Message(resp))
    ELSE update(m, p, IF resp = "ok" THEN ApiParameters(d) ELSE NoHave)

\* ModuleManager.create_on_device: how the answer is handled
create_on_device(c, resp) ==
    IF resp = "malformed" THEN Fail(c, MsgMalformed)
    ELSE IF resp \in {"e400", "e403", "e404"} THEN Fail(c, Message(resp))
    ELSE Done(c, TRUE)

\* ModuleManager.update_on_device: how the answer is handled
update_on_device(c, resp) ==
    IF resp = "malformed" THEN Fail(c, MsgMalformed)
    ELSE IF resp \in {"e400", "e404"} THEN Fail(c, Message(resp))
    ELSE Done(c, TRUE)

\* ModuleManager.remove_from_device: status 200 or an exception
remove_from_device(resp) ==
    IF resp = "ok" THEN Goto("exists_after_remove", NoChanges)
    ELSE Fail(NoChanges, MsgDeleteStatus)

\* remove() that does not look at the second exists()
AsRemoveUnchecked(ex) == Done(NoChanges, TRUE)

\* remove() that sends the DELETE again while the profile is still there
AsRemoveRetries(ex) ==
    IF ex THEN Goto("remove_from_device", NoChanges) ELSE Done(NoChanges, TRUE)

\* ModuleManager.remove, after the DELETE: the second exists()
remove_check(ex) ==
    IF ex THEN Fail(NoChanges, MsgDeleteFailed) ELSE Done(NoChanges, TRUE)

\* the body of the POST: api_params() plus name and partition
CreateBody(c) == [api_params(c) EXCEPT !.name = Name, !.partition = Partition]

(***************************************************************************)
(* The arguments and the devices the runs start from.                      *)
(***************************************************************************)
\* none of the arguments with a range is specified
NoRanges == [k \in AllRangeKeys |-> None]

\* a profile for which the device reports none of the attributes with a range
NoRangeAttrs == [a \in RangeAttrs |-> None]

HttpParams == {r @@ NoRanges : r \in
    [state : {"present", "absent"}, check_mode : BOOLEAN,
     parent : {"/Common/http"},
     description : {None, "a"},
     encrypt_cookie_secret : {None, "s1"},
     update_password : {"always", "on_create"},
     proxy_type : {None, "reverse", "explicit"},
     dns_resolver : {None, "", "none", "r1", "/Common/r2"},
     nagle : {None}]}

TcpParams == {r @@ NoRanges : r \in
    [state : {"present", "absent"}, check_mode : BOOLEAN,
     parent : {None, "custom"},
     description : {None},
     encrypt_cookie_secret : {None},
     update_password : {None},
     proxy_type : {None},
     dns_resolver : {None},
     nagle : {None, "auto", "enabled"}]}

HttpDevices ==
    {Absent} \cup {d @@ NoRangeAttrs : d \in
    [exists : {TRUE},
     defaultsFrom : {"/Common/http"},
     description : {None, "a", "b"},
     encryptCookieSecret : {None, "s1"},
     proxyType : {"reverse", "explicit"},
     explicitProxy : {None, "/Common/r1"},
     nagle : {None}]}

TcpDevices ==
    {Absent} \cup {d @@ NoRangeAttrs : d \in
    [exists : {TRUE},
     defaultsFrom : {"/Common/tcp", "/Common/custom"},
     description : {None},
     encryptCookieSecret : {None},
     proxyType : {None},
     explicitProxy : {None},
     nagle : {"auto", "enabled"}]}

(***************************************************************************)
(* The runs of a module: one action per REST call.                         *)
(***************************************************************************)
NoCall == f_pc = "idle" /\ f_arg = None /\ f_val = None

Idle == /\ a_pc = "idle" /\ connection = None /\ provider = None /\ transport = None
        /\ socket_path = None /\ shell = None /\ out = None /\ trace = <<>>

Init ==
    /\ module \in {"http", "tcp"}
    /\ params \in (IF module = "http" THEN HttpParams ELSE TcpParams)
    /\ device \in (IF module = "http" THEN HttpDevices ELSE TcpDevices)
    /\ pc = "exists"
    /\ have = NoHave
    /\ changes = NoChanges
    /\ changed = FALSE
    /\ failed = None
    /\ log = <<>>
    /\ runs = <<>>
    /\ Idle
    /\ NoCall

Step(o) ==
    /\ pc' = o.pc
    /\ changes' = o.changes
    /\ changed' = o.changed
    /\ failed' = o.failed

\* exec_module up to the request after the first exists()
Exists(resp) ==
    /\ pc = "exists"
    /\ resp \in GetAnswers(device)
    /\ log' = Append(log, Entry("GET exists", resp, NoBody))
    /\ Step(exec_module(module, params, exists(resp)))
    /\ UNCHANGED <<module, params, device, have, runs>>
    /\ UNCHANGED avars
    /\ UNCHANGED fvars

\* update(): the GET of the current state, the comparison, up to the PATCH
ReadCurrent(resp) ==
    /\ pc = "read_current_from_device"
    /\ resp \in GetAnswers(device)
    /\ log' = Append(log, Entry("GET read", resp, NoBody))
    /\ have' = (IF resp = "ok" THEN ApiParameters(device) ELSE NoHave)
    /\ Step(read_current_from_device(module, params, device, resp))
    /\ UNCHANGED <<module, params, device, runs>>
    /\ UNCHANGED avars
    /\ UNCHANGED fvars

\* create_on_device(): the POST
CreateOnDevice(resp) ==
    /\ pc = "create_on_device"
    /\ resp \in PostAnswers(device)
    /\ log' = Append(log, Entry("POST", resp, CreateBody(changes)))
    /\ device' = (IF resp = "ok" THEN Stored(CreateBody(changes)) ELSE device)
    /\ Step(create_on_device(changes, resp))
    /\ UNCHANGED <<module, params, have, runs>>
    /\ UNCHANGED avars
    /\ UNCHANGED fvars

\* update_on_device(): the PATCH
UpdateOnDevice(resp) ==
    /\ pc = "update_on_device"
    /\ resp \in PatchAnswers(device)
    /\ log' = Append(log, Entry("PATCH", resp, api_params(changes)))
    /\ device' = (IF resp = "ok" THEN Patched(device, api_params(changes)) ELSE device)
    /\ Step(update_on_device(changes, resp))
    /\ UNCHANGED <<module, params, have, runs>>
    /\ UNCHANGED avars
    /\ UNCHANGED fvars

\* remove_from_device(): the DELETE; a device that answers 200 has removed the
\* profile, or (gone) has not
RemoveFromDevice(resp, gone) ==
    /\ pc = "remove_from_device"
    /\ resp \in DeleteAnswers(device)
    /\ log' = Append(log, Entry("DELETE", resp, NoBody))
    /\ device' = (IF resp = "ok" /\ gone THEN Absent ELSE device)
    /\ Step(remove_from_device(resp))
    /\ UNCHANGED <<module, params, have, runs>>
    /\ UNCHANGED avars
    /\ UNCHANGED fvars

\* remove(): the exists() after the DELETE
ExistsAfterRemove(resp) ==
    /\ pc = "exists_after_remove"
    /\ resp \in GetAnswers(device)
    /\ log' = Append(log, Entry("GET exists", resp, NoBody))
    /\ Step(remove_check(exists(resp)))
    /\ UNCHANGED <<module, params, device, have, runs>>
    /\ UNCHANGED avars
    /\ UNCHANGED fvars

\* whether the device answered as a working device does: no error, nothing malformed
Clean(l) == \A i \in 1..Len(l) : l[i].resp \in {"ok", "e404"}

Requests(l) == [i \in 1..Len(l) |-> l[i].req]

\* the play goes on after a task that returned, and runs the task again with the
\* same arguments: a new process, a new ModuleManager
NextRun ==
    /\ pc = "done"
    /\ Len(runs) + 1 < MaxRuns
    /\ runs' = Append(runs, [changed |-> changed, clean |-> Clean(log),
                             requests |-> Requests(log)])
    /\ pc' = "exists"
    /\ have' = NoHave
    /\ changes' = NoChanges
    /\ changed' = FALSE
    /\ failed' = None
    /\ log' = <<>>
    /\ UNCHANGED <<module, params, device>>
    /\ UNCHANGED avars
    /\ UNCHANGED fvars

Next ==
    \/ \E resp \in {"ok", "e400", "e403", "e404", "malformed"} : Exists(resp)
    \/ \E resp \in {"ok", "e400", "e403", "e404", "malformed"} : ReadCurrent(resp)
    \/ \E resp \in {"ok", "e400", "e403", "e404", "malformed"} : CreateOnDevice(resp)
    \/ \E resp \in {"ok", "e400", "e403", "e404", "malformed"} : UpdateOnDevice(resp)
    \/ \E resp \in {"ok", "e400", "e403", "e404"}, gone \in BOOLEAN : RemoveFromDevice(resp, gone)
    \/ \E resp \in {"ok", "e400", "e403", "e404", "malformed"} : ExistsAfterRemove(resp)
    \/ NextRun

Spec == Init /\ [][Next]_vars

(***************************************************************************)
(* Runs that specify one argument with a range.                            *)
(***************************************************************************)

\* the arguments of type int reach the module as ints
IntKeys == {"poll_interval", "sampling_rate", "initial_congestion_window_size",
            "initial_receive_window_size", "syn_rto_base"}

\* what the user can write for an argument
RangeTexts(key) ==
    IF key \in IntKeys THEN {t \in Numerals : int(t) = t} ELSE KeywordTexts

RangeBase(m) ==
    [state |-> "present", check_mode |-> FALSE,
     parent |-> (IF m = "http" THEN "/Common/http" ELSE None),
     description |-> None, encrypt_cookie_secret |-> None,
     update_password |-> (IF m = "http" THEN "always" ELSE None),
     proxy_type |-> None, dns_resolver |-> None, nagle |-> None] @@ NoRanges

RangeParamsOf(m, key) ==
    {[RangeBase(m) EXCEPT ![key] = v, !.state = st, !.check_mode = cm] :
        v \in RangeTexts(key), st \in {"present", "absent"}, cm \in BOOLEAN}

RangeParams(m) == UNION {RangeParamsOf(m, RangeKeys(m)[i]) : i \in 1..Len(RangeKeys(m))}

\* the profile is absent, or has 16 in every attribute with a range
RangeDevices(m) ==
    {Absent,
     [a \in RangeAttrs |-> IF \E i \in 1..Len(RangeKeys(m)) : RangeAttr(RangeKeys(m)[i]) = a
                           THEN "16" ELSE None]
     @@ [exists |-> TRUE,
         defaultsFrom |-> (IF m = "http" THEN "/Common/http" ELSE "/Common/tcp"),
         description |-> None, encryptCookieSecret |-> None,
         proxyType |-> (IF m = "http" THEN "reverse" ELSE None),
         explicitProxy |-> None,
         nagle |-> (IF m = "http" THEN None ELSE "auto")]}

RangeInit ==
    /\ module \in {"http", "tcp"}
    /\ params \in RangeParams(module)
    /\ device \in RangeDevices(module)
    /\ pc = "exists"
    /\ have = NoHave
    /\ changes = NoChanges
    /\ changed = FALSE
    /\ failed = None
    /\ log = <<>>
    /\ runs = <<>>
    /\ Idle
    /\ NoCall

RangeSpec == RangeInit /\ [][Next]_vars

(***************************************************************************)
(* The bigiq action plugin: ActionModule.run.                              *)
(* One action per interaction with the connection layer or the device.     *)
(***************************************************************************)

\* the prompt of the CLI session by the depth of its configuration mode
Prompt(depth) ==
    CASE depth = 0 -> "bigiq#"
      [] depth = 1 -> "bigiq(config)#"
      [] OTHER -> "bigiq(config-sub)#"

\* the prompts that contain '(config'
ConfigPrompts == {"bigiq(config)#", "bigiq(config-sub)#"}

\* a loop condition that tests for the prompt '(config)#' only
AsInConfigExact(o) == o = "bigiq(config)#"

\* the loop condition: '(config' in to_text(out).strip()
InConfig(o) == o \in ConfigPrompts

\* any(provider.values())
AnyValue(prov) == prov.transport # None \/ prov.server # None

\* the provider's transport taken whatever the connection
AsNegotiatedAnyConnection(conn, prov) ==
    IF prov.transport # None THEN prov.transport ELSE "rest"

\* transport = provider['transport'] or transport, for connection 'local' only
Negotiated(conn, prov) ==
    IF conn = "local" /\ prov.transport # None THEN prov.transport ELSE "rest"

\* the condition that guards the prompt check
UsesCli(conn, t) == (conn = "local" /\ t = "cli") \/ conn = "network_cli"

Event(ev, arg) == [ev |-> ev, arg |-> arg]

ModuleIdle ==
    /\ module = None /\ params = None /\ device = None /\ pc = "idle"
    /\ have = None /\ changes = None /\ changed = FALSE /\ failed = None
    /\ log = <<>> /\ runs = <<>>

ActionInit ==
    /\ a_pc = "run"
    /\ connection \in {"network_cli", "local", "ssh"}
    /\ provider \in [transport : {None, "rest", "cli"}, server : {None, "host1"}]
    /\ transport = "rest"
    /\ socket_path = None
    /\ shell \in [opens : BOOLEAN, depth : 0..MaxDepth]
    /\ out = None
    /\ trace = <<>>
    /\ ModuleIdle
    /\ NoCall

\* run(), up to the prompt check: the warning, the transport, the persistent
\* connection of a local connection with transport cli
Negotiate ==
    /\ a_pc = "run"
    /\ transport' = Negotiated(connection, provider)
    /\ IF connection = "network_cli"
       THEN /\ trace' = (IF AnyValue(provider)
                         THEN Append(trace, Event("warning", "provider")) ELSE trace)
            /\ socket_path' = socket_path
            /\ a_pc' = "get_prompt"
       ELSE IF connection = "local" /\ transport' = "cli"
       THEN /\ trace' = Append(trace, Event("connection.run", "persistent"))
            /\ socket_path' = (IF shell.opens THEN "new socket" ELSE "")
            /\ a_pc' = (IF socket_path' = "" THEN "failed" ELSE "get_prompt")
       ELSE /\ trace' = trace
            /\ socket_path' = socket_path
            /\ a_pc' = "super.run"
    /\ UNCHANGED <<connection, provider, shell, out>>
    /\ UNCHANGED mvars
    /\ UNCHANGED fvars

\* conn = Connection(socket_path); out = conn.get_prompt()
GetPrompt ==
    /\ a_pc = "get_prompt"
    /\ UsesCli(connection, transport)
    /\ socket_path' = (IF socket_path = None THEN "_connection.socket_path" ELSE socket_path)
    /\ out' = Prompt(shell.depth)
    /\ trace' = Append(trace, Event("Connection", socket_path')) \o
                <<Event("get_prompt", out')>>
    /\ a_pc' = "while"
    /\ UNCHANGED <<connection, provider, transport, shell>>
    /\ UNCHANGED mvars
    /\ UNCHANGED fvars

\* one turn of the while loop: conn.send_command('exit'); out = conn.get_prompt()
\* (the device leaves one level of its configuration mode)
SendExit ==
    /\ a_pc = "while"
    /\ InConfig(out)
    /\ shell' = [shell EXCEPT !.depth = IF @ > 0 THEN @ - 1 ELSE 0]
    /\ out' = Prompt(shell'.depth)
    /\ trace' = trace \o <<Event("send_command", "exit"), Event("get_prompt", out')>>
    /\ UNCHANGED <<a_pc, connection, provider, transport, socket_path>>
    /\ UNCHANGED mvars
    /\ UNCHANGED fvars

\* result = super(ActionModule, self).run(tmp, task_vars)
RunModule ==
    /\ \/ a_pc = "super.run"
       \/ a_pc = "while" /\ ~InConfig(out)
    /\ trace' = Append(trace, Event("super.run", "module"))
    /\ a_pc' = "done"
    /\ UNCHANGED <<connection, provider, transport, socket_path, shell, out>>
    /\ UNCHANGED mvars
    /\ UNCHANGED fvars

ActionNext ==
    \/ Negotiate
    \/ GetPrompt
    \/ SendExit
    \/ RunModule

ActionSpec == ActionInit /\ [][ActionNext]_vars

(***************************************************************************)
(* Properties of ModuleParameters and ReportableChanges, read one at a     *)
(* time: f_arg is the property and the user's value, f_val what it gives.    *)
(***************************************************************************)
MaxCodes == 2
MaxMethods == 3

\* [4][0-1][0-7] at three characters
Is4xx(a, b, c) == a = "4" /\ b \in {"0", "1"} /\ c \in {"0", "1", "2", "3", "4", "5", "6", "7"}

\* 50[0-5] at three characters
Is5xx(a, b, c) == a = "5" /\ b = "0" /\ c \in {"0", "1", "2", "3", "4", "5"}

\* re.search(r'(?!([4][0-1][0-7]))\d{3}', code): some position of the string
\* starts three digits that are not 4[0-1][0-7]
Match4xx(code) ==
    \E i \in 1..Len(code) :
        /\ i + 2 <= Len(code)
        /\ IsDigit(code[i]) /\ IsDigit(code[i + 1]) /\ IsDigit(code[i + 2])
        /\ ~Is4xx(code[i], code[i + 1], code[i + 2])

\* re.search(r'(?!(50[0-5]))\d{3}', code)
Match5xx(code) ==
    \E i \in 1..Len(code) :
        /\ i + 2 <= Len(code)
        /\ IsDigit(code[i]) /\ IsDigit(code[i + 1]) /\ IsDigit(code[i + 2])
        /\ ~Is5xx(code[i], code[i + 1], code[i + 2])

\* ModuleParameters.fallback_status_codes: the list is returned as it is, unless
\* one of its codes matches both patterns
fallback_status_codes(codes) ==
    IF \E i \in 1..Len(codes) : Match4xx(codes[i]) /\ Match5xx(codes[i])
    THEN Raised(MsgInvalidCode)
    ELSE Returned(codes)

\* str(n) of a three-digit number
Str3(n) == <<DigitChars[(n \div 100) + 1], DigitChars[((n \div 10) % 10) + 1],
             DigitChars[(n % 10) + 1]>>

\* "a-b"
RangeOf(a, b) == Str3(a) \o <<"-">> \o Str3(b)

\* the codes the user writes: single codes in and around the two error classes,
\* ranges between their ends, and strings that are not three digits long
CodeStrings ==
    {Str3(n) : n \in (398..419) \cup (498..507) \cup {200, 304}}
    \cup {RangeOf(a, b) : a \in {400, 417, 500}, b \in {417, 505}}
    \cup {<<"4", "0">>, <<"4", "0", "0", "0">>, <<"5", "0", "x">>}

CodeLists == UNION {[1..n -> CodeStrings] : n \in 1..MaxCodes}

\* the arguments that take a keyword for a number
KeywordKeys == {"max_header_count", "max_header_size", "max_requests", "maximum_age",
                "idle_timeout"}

\* the methods the user writes, and the lists of them
Methods == {"default", "", "FOO", "BAR", "GET"}

MethodLists == UNION {[1..n -> Methods] : n \in 0..MaxMethods}


ParamInit ==
    /\ f_pc = "call"
    /\ \/ f_arg \in [fn : {"fallback_status_codes"}, v : CodeLists]
       \/ f_arg \in [fn : KeywordKeys, v : KeywordTexts]
       \/ f_arg \in [fn : {"known_methods"}, v : MethodLists]
    /\ f_val = None
    /\ ModuleIdle
    /\ Idle

Return(r) ==
    /\ f_pc' = "return"
    /\ f_val' = r
    /\ UNCHANGED f_arg
    /\ UNCHANGED mvars
    /\ UNCHANGED avars

FallbackStatusCodes ==
    /\ f_pc = "call"
    /\ f_arg.fn = "fallback_status_codes"
    /\ Return(fallback_status_codes(f_arg.v))

\* a ModuleParameters property that takes a keyword or a number
KeywordArgument ==
    /\ f_pc = "call"
    /\ f_arg.fn \in KeywordKeys
    /\ Return(WantRanged(f_arg.fn, f_arg.v))

KnownMethods ==
    /\ f_pc = "call"
    /\ f_arg.fn = "known_methods"
    /\ Return(Returned(WantKnownMethods(f_arg.v)))

\* exec_module: the value goes through the changes into ReportableChanges
Report ==
    /\ f_pc = "return"
    /\ f_arg.fn \in KeywordKeys \cup {"known_methods"}
    /\ f_val.err = None
    /\ f_pc' = "reported"
    /\ f_val' = [f_val EXCEPT !.shown = Reported(f_arg.fn, f_val.v)]
    /\ UNCHANGED f_arg
    /\ UNCHANGED mvars
    /\ UNCHANGED avars

ParamNext ==
    \/ FallbackStatusCodes
    \/ KeywordArgument
    \/ KnownMethods
    \/ Report

ParamSpec == ParamInit /\ [][ParamNext]_vars

(***************************************************************************)
(* Properties of the module runs (specification Spec).                     *)
(***************************************************************************)
CountReq(l, r) == Cardinality({i \in 1..Len(l) : l[i].req = r})

Mutating == {"POST", "PATCH", "DELETE"}

NoMutation(l) == \A i \in 1..Len(l) : l[i].req \notin Mutating

\* what the first exists() of the current run reported
FirstExists == exists(log[1].resp)

NormalRun(st) == pc # "idle" /\ params.state = st /\ ~params.check_mode /\ Len(log) >= 1

\* C1 (as claimed): starting without the profile on a device that stores what it
\* is sent and answers without errors, a state=present run that created the
\* profile, followed by a second run with the same arguments, makes the second
\* run issue no POST, PATCH or DELETE and report changed=False.
C1_SecondRunUnchanged ==
    ( /\ Len(runs) = 1
      /\ params.state = "present" /\ ~params.check_mode
      /\ runs[1].clean /\ runs[1].requests = <<"GET exists", "POST">>
      /\ Clean(log) )
    => /\ NoMutation(log)
       /\ pc # "failed"
       /\ pc = "done" => ~changed

\* C2: a non-check-mode state=present run whose existence check reported the
\* profile absent never issues a PATCH or a DELETE, and when it returns it has
\* issued exactly one POST, carrying name and partition, reports changed=True
\* and the device holds the profile.
C2_PresentCreates ==
    (NormalRun("present") /\ ~FirstExists)
    => /\ CountReq(log, "PATCH") = 0 /\ CountReq(log, "DELETE") = 0
       /\ CountReq(log, "POST") <= 1
       /\ \A i \in 1..Len(log) : log[i].req = "POST" =>
              log[i].body.name = Name /\ log[i].body.partition = Partition
       /\ pc = "done" => /\ CountReq(log, "POST") = 1
                         /\ changed
                         /\ device.exists

C2_Witness ==
    /\ NormalRun("present") /\ ~FirstExists /\ pc = "done"
    /\ Len(log) = 2 /\ log[2].req = "POST" /\ changed /\ device.exists

\* the module argument behind a wire attribute, and the attribute as read
ParamOf(k) ==
    CASE k = "defaultsFrom" -> "parent"
      [] k = "encryptCookieSecret" -> "encrypt_cookie_secret"
      [] k = "proxyType" -> "proxy_type"
      [] k = "explicitProxy" -> "dns_resolver"
      [] k \in RangeAttrs -> RangeKeyOf(k)
      [] OTHER -> k

\* the fields that Difference compares with __default
PlainKeys == IF module = "http" THEN {"description", "proxy_type"} ELSE {"parent", "nagle"}

Compared == pc \in {"update_on_device", "done", "failed"} /\ Len(log) >= 2 /\ log[2].req = "GET read"

C5_CheckModeReadsOnly ==
    (pc # "idle" /\ params.check_mode)
    => /\ NoMutation(log)
       /\ pc \notin {"create_on_device", "update_on_device", "remove_from_device",
                     "exists_after_remove"}
       /\ pc = "done" =>
            (changed <=>
                \/ params.state = "present" /\ ~FirstExists
                \/ params.state = "present" /\ FirstExists /\ NonEmpty(changes)
                \/ params.state = "absent" /\ FirstExists)

C5_Witness ==
    /\ pc = "done" /\ params.check_mode /\ params.state = "present"
    /\ FirstExists /\ NonEmpty(changes) /\ changed
    /\ Requests(log) = <<"GET exists", "GET read">>

\* C6 (as claimed): a JSON answer with code 400, 403 or 404 and a message, to the
\* read of the current profile, to the POST or to the PATCH, makes the run fail
\* with that message, and the run reports no changed result.
C6_ErrorsSurface ==
    \A i \in 1..Len(log) :
        (log[i].req \in {"GET read", "POST", "PATCH"} /\ log[i].resp \in ErrorKinds)
        => /\ i = Len(log)
           /\ pc = "failed"
           /\ failed = Message(log[i].resp)

\* C7 (as claimed): an answer that is not JSON, to the existence check, the read
\* of the current state, the POST or the PATCH, makes the run fail at that call;
\* no further request is issued.
C7_MalformedRaises ==
    \A i \in 1..Len(log) :
        (log[i].req \in {"GET exists", "GET read", "POST", "PATCH"} /\ log[i].resp = "malformed")
        => /\ i = Len(log)
           /\ pc = "failed"

\* whether the code treats the answer to the i-th request as a failure
TreatedAsFailure(i) ==
    CASE log[i].req = "GET exists" -> i > 1 /\ remove_check(exists(log[i].resp)).pc = "failed"
      [] log[i].req = "GET read" -> ReadRaises(log[i].resp)
      [] log[i].req = "POST" -> create_on_device(NoChanges, log[i].resp).pc = "failed"
      [] log[i].req = "PATCH" -> update_on_device(NoChanges, log[i].resp).pc = "failed"
      [] OTHER -> remove_from_device(log[i].resp).pc = "failed"

\* C8: in one run POST, PATCH and DELETE are each issued at most once and at
\* most one of the three kinds is issued; the existence GET is issued at most
\* twice, the second one right after a DELETE; a request whose answer is treated
\* as a failure is the last request of the run, and the run has failed.
C8_NoRetry ==
    pc # "idle"
    => /\ \A r \in Mutating : CountReq(log, r) <= 1
       /\ Cardinality({r \in Mutating : CountReq(log, r) > 0}) <= 1
       /\ CountReq(log, "GET exists") <= 2
       /\ \A i \in 2..Len(log) : log[i].req = "GET exists" => log[i-1].req = "DELETE"
       /\ \A i \in 1..Len(log) : TreatedAsFailure(i) => i = Len(log) /\ pc = "failed"

C8_Witness ==
    /\ pc = "failed" /\ failed = MsgDeleteFailed
    /\ Requests(log) = <<"GET exists", "DELETE", "GET exists">>
    /\ device.exists

(***************************************************************************)
(* The order of the requests of a run (specification Spec).                *)
(***************************************************************************)
\* what the answer to an existence GET says about the profile: a JSON body
\* without an error code says it is there, a JSON 404 says it is not; an answer
\* with another error code, or one that is not JSON, says neither
ReportedPresent(resp) == resp = "ok"

ReportedAbsent(resp) == resp = "e404"

\* one step issues at most one request, and only after the answer to the one
\* before it; a new run starts with an empty log
OneAfterAnother ==
    \/ log' = log
    \/ log' = <<>> /\ pc = "done"
    \/ Len(log') = Len(log) + 1 /\ SubSeq(log', 1, Len(log)) = log

\* the state a run starts from holds nothing of the run before it
FreshRun ==
    pc = "exists" =>
        /\ log = <<>> /\ have = NoHave /\ changes = NoChanges
        /\ ~changed /\ failed = None

\* what a PATCH is about to send was computed from the profile as this run read it
FreshHave ==
    pc = "update_on_device" =>
        /\ have = (IF log[2].resp = "ok" THEN ApiParameters(device) ELSE NoHave)
        /\ changes = UpdateChangedOptions(module, params, have)

\* the order of the requests, with the existence check as 'seen' reads it and
\* the DELETEs that are 'followed' by one more existence GET
Ordering(seenAbsent(_), seenPresent(_), followed(_)) ==
    /\ Len(log) >= 1 => log[1].req = "GET exists"
    /\ \A i \in 1..Len(log) :
        /\ log[i].req = "POST" => i = 2 /\ seenAbsent(log[1].resp)
        /\ log[i].req = "GET read" => i = 2
        /\ log[i].req = "PATCH" =>
              /\ i = 3 /\ seenPresent(log[1].resp)
              /\ log[2].req = "GET read" /\ ~ReadRaises(log[2].resp)
        /\ log[i].req = "DELETE" =>
              /\ i = 2 /\ seenPresent(log[1].resp)
              /\ Len(log) <= 3
              /\ Len(log) = 3 => log[3].req = "GET exists"
              /\ (pc \in {"done", "failed"} /\ followed(log[i].resp)) => Len(log) = 3
    /\ \A r \in 1..Len(runs) : runs[r].requests[1] = "GET exists"

EveryDelete(resp) == TRUE

DeleteSucceeded(resp) == resp = "ok"

\* C21 (as claimed): requests are issued one after another; the first request
\* of every run is the existence GET; a POST is issued only after the existence
\* GET reported the profile absent; a PATCH only after the existence GET
\* reported it present and a read-current GET of the same run returned; a DELETE
\* only after the existence GET reported it present, and it is followed by
\* exactly one more existence GET; no state read in one run is used by a later
\* run.
C21_RequestOrdering ==
    /\ [](Ordering(ReportedAbsent, ReportedPresent, EveryDelete) /\ FreshRun /\ FreshHave)
    /\ [][OneAfterAnother]_vars

\* C21, as the code orders the requests: the same with 'absent' and 'present'
\* being what ModuleManager.exists makes of the answer (an answer that is not
\* JSON counts as absent, an error other than 404 as present), and with the
\* second existence GET following a DELETE that was answered with status 200 (a
\* DELETE answered otherwise is the last request of the run).
C21_OrderingAsCoded ==
    pc # "idle" =>
        /\ Ordering(LAMBDA r : ~exists(r), exists, DeleteSucceeded)
        /\ FreshRun /\ FreshHave
        /\ \A i \in 1..Len(log) :
              (log[i].req = "DELETE" /\ ~DeleteSucceeded(log[i].resp))
              => i = Len(log) /\ pc = "failed"

\* C21: the steps of a run, one request after the other
C21_StepsAsCoded == [][OneAfterAnother]_vars

(***************************************************************************)
(* Properties of the bigiq action (specification ActionSpec).              *)
(***************************************************************************)
Events(ev) == {i \in 1..Len(trace) : trace[i].ev = ev}

\* the task uses a CLI transport
CliTask ==
    \/ connection = "network_cli"
    \/ connection = "local" /\ provider.transport = "cli"

\* C9: when the wrapped module runs over a CLI transport, a prompt has been read
\* and the last prompt read does not contain '(config'; every prompt read that
\* contains '(config' is followed by one 'exit' and then by the next prompt
\* read, and 'exit' is sent at no other time.
C9_KnownPromptState ==
    a_pc # "idle"
    => /\ (CliTask /\ Events("super.run") # {})
            => /\ Events("get_prompt") # {}
               /\ \A i \in Events("get_prompt") :
                      (\A j \in Events("get_prompt") : j <= i)
                      => trace[i].arg \notin ConfigPrompts /\ trace[i].arg = out
               /\ \A i \in Events("super.run") : \A j \in Events("get_prompt") : j < i
       /\ \A i \in Events("get_prompt") :
              (trace[i].arg \in ConfigPrompts /\ i < Len(trace))
              => /\ trace[i + 1] = Event("send_command", "exit")
                 /\ i + 2 <= Len(trace)
                 /\ trace[i + 2].ev = "get_prompt"
       /\ \A i \in Events("send_command") :
              /\ i > 1
              /\ trace[i - 1].ev = "get_prompt"
              /\ trace[i - 1].arg \in ConfigPrompts

C9_Witness ==
    /\ a_pc = "done" /\ connection = "local" /\ provider.transport = "cli"
    /\ Cardinality(Events("send_command")) = 2
    /\ Cardinality(Events("get_prompt")) = 3
    /\ out = "bigiq#"

\* C10: the transport is 'rest' unless the connection is 'local' and the provider
\* names one; a local task with transport 'rest' only runs the module, once; a
\* network_cli task keeps transport 'rest' whatever the provider says, warns
\* exactly when a provider value is set, opens no persistent connection and
\* checks the prompt over the existing connection's socket path.
C10_TransportNegotiation ==
    (a_pc # "idle" /\ a_pc # "run")
    => /\ transport = (IF connection = "local" /\ provider.transport # None
                       THEN provider.transport ELSE "rest")
       /\ (connection = "local" /\ transport = "rest")
            => /\ trace \in {<<>>, <<Event("super.run", "module")>>}
               /\ socket_path = None /\ out = None
               /\ a_pc = "done" => trace = <<Event("super.run", "module")>>
       /\ connection = "network_cli"
            => /\ Events("connection.run") = {}
               /\ Events("warning") # {}
                    <=> (provider.transport # None \/ provider.server # None)
               /\ \A i \in Events("Connection") : trace[i].arg = "_connection.socket_path"
               /\ a_pc = "done" => Events("Connection") # {}
       /\ a_pc = "done" => Cardinality(Events("super.run")) = 1

C10_Witness ==
    /\ a_pc = "done" /\ connection = "network_cli" /\ provider.transport = "cli"
    /\ Events("warning") # {} /\ socket_path = "_connection.socket_path"
    /\ transport = "rest"

(***************************************************************************)
(* Properties of the parameter classes (specification ParamSpec).          *)
(***************************************************************************)
Answered(fn) == f_pc = "return" /\ f_arg.fn = fn

\* the error codes of RFC 2616: 400..417 and 500..505
Rfc2616Codes == {Str3(n) : n \in (400..417) \cup (500..505)}

\* C11 (as claimed): a list made of RFC 2616 error codes and of the ranges
\* 400-417 and 500-505 is accepted without error, and a list holding the range
\* 400-505, which mixes the two error types, fails with 'Invalid HTTP error
\* code or error code range specified.'.
C11_FallbackCodes ==
    Answered("fallback_status_codes") =>
        /\ (\A i \in 1..Len(f_arg.v) :
                f_arg.v[i] \in Rfc2616Codes \cup {RangeOf(400, 417), RangeOf(500, 505)})
           => f_val.err = None
        /\ (\E i \in 1..Len(f_arg.v) : f_arg.v[i] = RangeOf(400, 505))
           => f_val.err = MsgInvalidCode

\* what holds of the codes: of the RFC 2616 codes all but 408 and 409 are accepted
C11_AllBut408And409 ==
    Answered("fallback_status_codes") =>
        /\ (\A i \in 1..Len(f_arg.v) :
                f_arg.v[i] \in (Rfc2616Codes \ {Str3(408), Str3(409)})
                             \cup {RangeOf(400, 417), RangeOf(500, 505)})
           => f_val.err = None
        /\ (\E i \in 1..Len(f_arg.v) : f_arg.v[i] \in {Str3(408), Str3(409), RangeOf(400, 505)})
           => f_val.err = MsgInvalidCode

\* the arguments that take a keyword, their keyword and the number it stands for
KeywordOf(key) == IF key \in {"maximum_age", "idle_timeout"} THEN "indefinite" ELSE "default"

FixedNumber(key) ==
    CASE key = "max_header_count" -> "64"
      [] key = "max_header_size" -> "32768"
      [] key = "max_requests" -> "0"
      [] key \in {"maximum_age", "idle_timeout"} -> "4294967295"

ReportedKeyword == f_pc = "reported" /\ f_arg.fn \in KeywordKeys /\ f_val.shown # None

\* C16: for max_header_count, max_header_size, max_requests, maximum_age and
\* idle_timeout the keyword parses to its fixed number (64, 32768, 0,
\* 4294967295, 4294967295); the reported value of an accepted value is the
\* keyword exactly when the number parsed is the fixed number, and otherwise
\* the number; parsing the reported value gives the number parsed before.
C16_KeywordRoundTrip ==
    /\ (f_pc \in {"return", "reported"} /\ f_arg.fn \in KeywordKeys
        /\ f_arg.v = KeywordOf(f_arg.fn))
       => (f_val.err = None /\ f_val.v = FixedNumber(f_arg.fn))
    /\ ReportedKeyword =>
          /\ f_val.shown = KeywordOf(f_arg.fn) <=> f_val.v = FixedNumber(f_arg.fn)
          /\ f_val.v # FixedNumber(f_arg.fn) => f_val.shown = f_val.v
          /\ WantRanged(f_arg.fn, f_val.shown).err = None
          /\ WantRanged(f_arg.fn, f_val.shown).v = f_val.v

C16_Witness ==
    /\ ReportedKeyword /\ f_arg.fn = "max_requests" /\ f_arg.v = "0"
    /\ f_val.shown = "default"

\* the 11 methods of the system
ElevenMethods == <<"CONNECT", "DELETE", "GET", "HEAD", "LOCK", "OPTIONS", "POST",
                   "PROPFIND", "PUT", "TRACE", "UNLOCK">>

Customs(l) == SelectSeq(l, NotDefaultKeyword)

\* the lists the statement is about: ['default'], [''], and 'default' with
\* custom methods
WithCustoms(l) == InSeq("default", l) /\ Customs(l) # <<>>

\* C18: known_methods ['default'] parses to exactly the 11 system methods, a
\* list with 'default' and custom methods to the custom methods followed by the
\* 11 system methods, [''] to the empty list; and the list reported for the
\* parsed list is, as a set, the user's list whenever the custom methods are not
\* among the 11 system methods.
C18_KnownMethods ==
    (f_pc \in {"return", "reported"} /\ f_arg.fn = "known_methods") =>
        /\ f_arg.v = <<"default">> => f_val.v = ElevenMethods
        /\ WithCustoms(f_arg.v) => f_val.v = Customs(f_arg.v) \o ElevenMethods
        /\ f_arg.v = <<"">> => f_val.v = <<>>
        /\ ( /\ f_pc = "reported"
             /\ f_arg.v = <<"default">> \/ f_arg.v = <<"">> \/ WithCustoms(f_arg.v)
             /\ Elems(Customs(f_arg.v)) \cap Elems(ElevenMethods) = {} )
           => Elems(f_val.shown) = Elems(f_arg.v)

C18_Witness ==
    /\ f_pc = "reported" /\ f_arg.fn = "known_methods"
    /\ f_arg.v = <<"FOO", "default", "BAR">>
    /\ f_val.v = <<"FOO", "BAR">> \o ElevenMethods
    /\ f_val.shown = <<"FOO", "BAR", "default">>

(***************************************************************************)
(* Properties of bigip_profile_http runs (specification Spec).             *)
(***************************************************************************)
HttpPresent == pc # "idle" /\ module = "http" /\ params.state = "present"

\* the run is past the comparison of want and have
UpdatePath == HttpPresent /\ Compared

PatchBodies == {log[i].body : i \in {j \in 1..Len(log) : log[j].req = "PATCH"}}

PostBodies == {log[i].body : i \in {j \in 1..Len(log) : log[j].req = "POST"}}

\* C12: a state=present run of bigip_profile_http with proxy_type=explicit and
\* dns_resolver unspecified, '' or 'none' never issues a POST or a PATCH and
\* never returns; once the device has answered the GETs it fails with 'A proxy
\* type cannot be set to explicit without providing DNS resolver.', on the
\* create path and on the update path, in check mode and in normal mode.
C12_ExplicitNeedsResolver ==
    ( /\ HttpPresent
      /\ params.proxy_type = "explicit"
      /\ params.dns_resolver \in {None, "", "none"} )
    => /\ PostBodies = {} /\ PatchBodies = {}
       /\ pc \notin {"done", "create_on_device", "update_on_device"}
       /\ (Len(log) >= 1 /\ ~FirstExists) => failed = MsgProxyNoResolver
       /\ (Len(log) >= 2 /\ ~ReadRaises(log[2].resp)) => failed = MsgProxyNoResolver

C12_Witness ==
    /\ HttpPresent /\ params.proxy_type = "explicit" /\ params.dns_resolver = ""
    /\ params.check_mode
    /\ Len(log) = 2 /\ log[2].req = "GET read" /\ log[2].resp = "ok"
    /\ have.dns_resolver = "/Common/r1"
    /\ pc = "failed" /\ failed = MsgProxyNoResolver

\* the secret is to be sent: update_password is always, the secret is specified
\* and differs from the one read
SecretDiffers ==
    /\ params.update_password = "always"
    /\ params.encrypt_cookie_secret # None
    /\ params.encrypt_cookie_secret # have.encrypt_cookie_secret

\* the changes the comparison finds when the secret is left out of the arguments
OtherChanges ==
    UpdateChangedOptions(module, [params EXCEPT !.encrypt_cookie_secret = None], have)

\* C13: on the update path of bigip_profile_http a PATCH carries
\* encryptCookieSecret exactly when update_password is always and the secret is
\* specified and differs from the one read, and it then is the specified secret;
\* a comparison that finds this difference leads to a PATCH with the secret;
\* with update_password=on_create no PATCH carries the secret, and a
\* difference in the secret alone gives changed=False.
C13_UpdatePassword ==
    UpdatePath =>
        /\ \A b \in PatchBodies :
              /\ b.encryptCookieSecret # None <=> SecretDiffers
              /\ SecretDiffers => b.encryptCookieSecret = params.encrypt_cookie_secret
        /\ (SecretDiffers /\ ~params.check_mode /\ pc = "done") => Cardinality(PatchBodies) = 1
        /\ (pc \in {"update_on_device", "done"}) =>
              (changes.encrypt_cookie_secret # None <=> SecretDiffers)
        /\ params.update_password = "on_create" =>
              /\ \A b \in PatchBodies : b.encryptCookieSecret = None
              /\ (pc = "done" /\ ~NonEmpty(OtherChanges)) => (~changed /\ PatchBodies = {})

C13_Witness ==
    /\ UpdatePath /\ pc = "done" /\ changed /\ ~params.check_mode
    /\ params.update_password = "always"
    /\ have.encrypt_cookie_secret = None
    /\ \E b \in PatchBodies : b.encryptCookieSecret = "s1"

\* C14 (as claimed): the POST of a profile that bigip_profile_http creates
\* carries encryptCookieSecret equal to the specified passphrase, with
\* update_password on_create and always.
C14_SecretOnCreate ==
    (HttpPresent /\ ~params.check_mode /\ params.encrypt_cookie_secret # None)
    => \A b \in PostBodies : b.encryptCookieSecret = params.encrypt_cookie_secret

\* the parameter keys of the result exec_module returns
ResultKeys == {k \in ChangeKeys : Result(module, changes, changed)[k] # None}

\* the wire attribute that carries a parameter key
AttrOf(k) == CHOOSE a \in ApiKeys : ParamOf(a) = (IF k = "explicit_proxy" THEN "dns_resolver" ELSE k)

\* C19: the result of every run that returns has the key 'changed', with the
\* value the run computed; it has parameter keys only when changed=True, and a
\* parameter key only for a parameter that is in the changes of the run (the
\* create payload, or the differences found for the update), which outside
\* check mode is a parameter the POST or PATCH of the run carried; a run with
\* changed=False returns no parameter key.
C19_NormalizedResult ==
    (pc = "done") =>
        /\ "changed" \in DOMAIN Result(module, changes, changed)
        /\ Result(module, changes, changed).changed = changed
        /\ ResultKeys # {} => changed
        /\ ~changed => ResultKeys = {}
        /\ \A k \in ResultKeys :
              /\ changes[IF k = "explicit_proxy" THEN "dns_resolver" ELSE k] # None
              /\ ~params.check_mode =>
                    \E b \in PostBodies \cup PatchBodies : b[AttrOf(k)] # None

C19_Witness ==
    /\ pc = "done" /\ module = "http" /\ changed /\ ~params.check_mode
    /\ Len(log) = 3 /\ log[3].req = "PATCH"
    /\ changes.encrypt_cookie_secret = "s1"
    /\ ResultKeys = {"description", "dns_resolver", "explicit_proxy"}

\* C20 (as claimed): on the update path of bigip_profile_http, a specified
\* resolver name whose qualified form differs from the resolver read from the
\* device makes the run report changed=True and issue a PATCH that carries the
\* desired resolver.
C20_ResolverReconciled ==
    ( /\ UpdatePath /\ ~params.check_mode /\ pc = "done"
      /\ have.valid
      /\ WantDnsResolver(params) \notin {None, ""}
      /\ WantDnsResolver(params) # have.dns_resolver )
    => /\ changed
       /\ \E b \in PatchBodies : b.explicitProxy = WantDnsResolver(params)

\* what holds: the resolver is sent when the profile read has none
C20_ResolverSetWhenNone ==
    ( /\ UpdatePath /\ ~params.check_mode /\ pc = "done"
      /\ have.valid
      /\ WantDnsResolver(params) \notin {None, ""}
      /\ have.dns_resolver = None )
    => /\ changed
       /\ \E b \in PatchBodies : b.explicitProxy = WantDnsResolver(params)

(***************************************************************************)
(* Properties of the arguments with a range (specification RangeSpec).     *)
(***************************************************************************)

\* the argument of this run that has a range, and what the user wrote for it
Ranged == CHOOSE k \in AllRangeKeys : params[k] # None

\* the run is a state=present run that has received the answer to its first GET
PresentRun(m) == pc # "idle" /\ module = m /\ params.state = "present" /\ Len(log) >= 1

\* the run has failed in validation: on the create path, or on the update path
\* once the profile was read
Validated ==
    \/ ~FirstExists
    \/ Len(log) >= 2 /\ log[2].req = "GET read" /\ log[2].resp = "ok"

\* the user's text is a number within lo..hi
Within(t, lo, hi) == t \in Numerals /\ InRange(lo, int(t), hi)

\* the values the http module is to accept
HttpAccepts(key, t) ==
    CASE key = "max_header_count" -> t = "default" \/ Within(t, "16", "4096")
      [] key \in {"max_header_size", "max_requests"} ->
            t = "default" \/ Within(t, "0", "4294967295")
      [] key = "maximum_age" -> t = "indefinite" \/ Within(t, "0", "4294967295")
      [] key \in {"poll_interval", "sampling_rate"} -> Within(t, "0", "4294967295")

HttpRangeError(key) ==
    CASE key = "max_header_count" -> MsgMaxHeaderCount
      [] key = "max_header_size" -> MsgMaxHeaderSize
      [] key = "max_requests" -> MsgMaxRequests
      [] key = "maximum_age" -> MsgMaximumAge
      [] key = "poll_interval" -> MsgPollInterval
      [] key = "sampling_rate" -> MsgSamplingRate

RangeErrors == {MsgMaxHeaderCount, MsgMaxHeaderSize, MsgMaxRequests, MsgMaximumAge,
                MsgPollInterval, MsgSamplingRate, MsgInitCwnd, MsgInitRwnd, MsgSynRtoBase}

\* C15: in a state=present run of bigip_profile_http, max_header_count is
\* accepted iff it is 'default' or in 16..4096, max_header_size and max_requests
\* iff 'default' or in 0..4294967295, maximum_age iff 'indefinite' or in
\* 0..4294967295, poll_interval and sampling_rate iff in 0..4294967295; a run
\* given a number outside the range issues no POST and no PATCH and does not
\* return, and fails with the range error of the field on the create path and,
\* once the profile is read, on the update path; an accepted value never gives
\* a range error.
C15_HttpRanges ==
    PresentRun("http") =>
        /\ WantRanged(Ranged, params[Ranged]).err = None <=> HttpAccepts(Ranged, params[Ranged])
        /\ (params[Ranged] \in Numerals /\ ~HttpAccepts(Ranged, params[Ranged])) =>
              /\ PostBodies = {} /\ PatchBodies = {}
              /\ pc \notin {"done", "create_on_device", "update_on_device"}
              /\ Validated => (pc = "failed" /\ failed = HttpRangeError(Ranged))
        /\ HttpAccepts(Ranged, params[Ranged]) => failed \notin RangeErrors

C15_Witness ==
    /\ PresentRun("http") /\ Ranged = "max_header_count" /\ params[Ranged] = "15"
    /\ Len(log) = 2 /\ log[2].req = "GET read" /\ log[2].resp = "ok"
    /\ pc = "failed" /\ failed = MsgMaxHeaderCount

\* the values the tcp module is to accept
TcpAccepts(key, t) ==
    CASE key \in {"initial_congestion_window_size", "initial_receive_window_size"} ->
            Within(t, "0", "16")
      [] key = "syn_rto_base" -> Within(t, "0", "5000")

TcpRangeError(key) ==
    CASE key = "initial_congestion_window_size" -> MsgInitCwnd
      [] key = "initial_receive_window_size" -> MsgInitRwnd
      [] key = "syn_rto_base" -> MsgSynRtoBase

\* C17: in a state=present run of bigip_profile_tcp,
\* initial_congestion_window_size and initial_receive_window_size are accepted
\* iff in 0..16 and syn_rto_base iff in 0..5000; a run given a value outside the
\* range issues no POST and no PATCH and does not return, in check mode and in
\* normal mode, and fails with the range error of the field on the create path
\* and, once the profile is read, on the update path; an accepted value never
\* gives a range error.
C17_TcpRanges ==
    PresentRun("tcp") =>
        /\ WantRanged(Ranged, params[Ranged]).err = None <=> TcpAccepts(Ranged, params[Ranged])
        /\ ~TcpAccepts(Ranged, params[Ranged]) =>
              /\ PostBodies = {} /\ PatchBodies = {}
              /\ pc \notin {"done", "create_on_device", "update_on_device"}
              /\ Validated => (pc = "failed" /\ failed = TcpRangeError(Ranged))
        /\ TcpAccepts(Ranged, params[Ranged]) => failed \notin RangeErrors

C17_Witness ==
    /\ PresentRun("tcp") /\ Ranged = "syn_rto_base" /\ params[Ranged] = "5001"
    /\ params.check_mode
    /\ Len(log) = 2 /\ log[2].req = "GET read" /\ log[2].resp = "ok"
    /\ pc = "failed" /\ failed = MsgSynRtoBase

====
